---- MODULE Spec2Model ----
(***************************************************************************)
(* Model of src/notifications/index.js: the notifications service.         *)
(*                                                                         *)
(* State: the notifications table (Postgres), its SERIAL sequence, the     *)
(* Redis list 'notification_queue', the HTTP handlers of                   *)
(* POST /notifications that are between two awaits, and the position of   *)
(* the processQueue loop.  Every await of the source is one step.          *)
(*                                                                         *)
(* JavaScript values are written as the text of their literal              *)
(* ("undefined", "null", "''", "'hi'", "0", "1"), so that values of      *)
(* different JavaScript types stay comparable.  A nullable value that is   *)
(* not a JavaScript literal (a timestamp, the result of brPop, a row       *)
(* held by a handler) is a sequence: <<>> for null, <<v>> for v.          *)
(***************************************************************************)
EXTENDS Integers, Sequences, FiniteSets, TLC

\* ---------------------------------------------------------------- bounds
MaxRequests == 2    \* POST /notifications requests received
MaxEvents == 1      \* errors thrown inside the processQueue loop, plus
                    \* elements written to the Redis list by somebody else
\* The POST handlers that can be in flight together.
Handlers == {"h1", "h2"}
Ids == 1..MaxRequests

None == <<>>
Some(x) == <<x>>
Get(o) == o[1]

\* ---------------------------------------------------------------- values
\* JavaScript truthiness, as used by `!x` and `x || y`.
Falsy(v) == v \in {"undefined", "null", "''", "0", "false", "NaN"}

\* The channels line 93 accepts.
Channels == {"'email'", "'slack'", "'telegram'"}

\* The request bodies the model submits (req.body after express.json()).
Body(u, t, c, s, m) ==
    [user_id |-> u, type |-> t, channel |-> c, subject |-> s, message |-> m]

ValidBodies ==
    { Body("1", "'t'", "'email'", "'s'", "'hi'"),
      Body("1", "'t'", "'slack'", "undefined", "'hi'") }

Bodies ==
    ValidBodies \cup
    { Body("1", "'t'", "'pager'", "undefined", "'hi'"),
      Body("undefined", "'t'", "'email'", "'s'", "'hi'"),
      Body("'u1'", "'t'", "'email'", "undefined", "'hi'") }

\* Line 89, broken: user_id is not looked at.
MissingRequired_NoUserId(body) ==
    Falsy(body.type) \/ Falsy(body.channel) \/ Falsy(body.message)

\* Line 89: the required fields.
MissingRequired(body) ==
    Falsy(body.user_id) \/ Falsy(body.type) \/ Falsy(body.channel) \/ Falsy(body.message)

\* Line 93: the channel check.
InvalidChannel(body) == body.channel \notin Channels

\* user_id INTEGER (line 26): what Postgres stores for the parameter, or
\* "error" when the text is no integer.
PgInteger(v) ==
    CASE v \in {"0", "1", "2"} -> v
      [] v = "'1'" -> "1"
      [] OTHER -> "error"

\* `subject || null` of line 101.
OrNull(v) == IF Falsy(v) THEN "null" ELSE v

\* id.toString() of line 105: the decimal digits of a positive integer.
RECURSIVE IdToString(_)
IdToString(n) == IF n < 10 THEN <<n>> ELSE Append(IdToString(n \div 10), n % 10)

\* parseInt(element) of line 51 on a string of decimal digits.
RECURSIVE ParseInt(_)
ParseInt(s) ==
    IF Len(s) = 0 THEN 0
    ELSE ParseInt(SubSeq(s, 1, Len(s) - 1)) * 10 + s[Len(s)]

\* ---------------------------------------------------------------- state
VARIABLES
    records,        \* the notifications table: id -> row
    seq,            \* next value of the SERIAL sequence of notifications.id
    queue,          \* the Redis list notification_queue, head (left) first
    now,            \* the instant of the last statement that read the clock
    hpc,            \* per handler: "idle" or "lPush" (between lines 101 and 105)
    notification,   \* per handler: result.rows[0] of line 103
    reqBody,        \* per handler: the req.body it destructured at line 87
    resp,           \* the last response a POST handler wrote
    requests,       \* POST requests received so far
    listParams,     \* the LIMIT and OFFSET parameters of the last list query
    pc,             \* processQueue: the await it is at
    notificationId, \* processQueue: the result of the last brPop
    id,             \* processQueue: parseInt(notificationId.element)
    notif,          \* processQueue: result.rows[0] of line 59
    other,          \* the same four of a second processQueue loop, when there is one
    caught,         \* processQueue: times the catch of line 69 ran
    sendCount,      \* id -> calls of sendNotification for that id
    issued,         \* history: ids returned by INSERT, in order
    enqOrder,       \* history: ids pushed by the handlers, in order
    deqOrder,       \* history: ids popped by processQueue, in order
    aborted,        \* history: id -> the await that threw in its last cycle, or ""
    redelivered     \* history: elements written to the list by somebody else

vars == <<records, seq, queue, now, hpc, notification, reqBody, resp, requests, listParams, pc,
          notificationId, id, notif, other, caught, sendCount, issued, enqOrder,
          deqOrder, aborted, redelivered>>

storeVars == <<records, seq>>
handlerVars == <<hpc, notification, reqBody, resp, requests, listParams>>
dispatcherVars == <<pc, notificationId, id, notif, other, caught, sendCount>>
historyVars == <<issued, enqOrder, deqOrder, aborted, redelivered>>

\* A request: its route, and its body, its :id or its query when it has one.
Request(op, body, idParam, query) ==
    [op |-> op, body |-> body, id |-> idParam, query |-> query]

PostRequest(body) == Request("POST", Some(body), None, None)

NoResp == [code |-> 0, error |-> "", body |-> None, req |-> None]

Init ==
    /\ records = <<>>
    /\ seq = 1
    /\ queue = <<>>
    /\ now = 0
    /\ hpc = [h \in Handlers |-> "idle"]
    /\ notification = [h \in Handlers |-> None]
    /\ reqBody = [h \in Handlers |-> None]
    /\ resp = NoResp
    /\ requests = 0
    /\ listParams = None
    /\ pc = "brPop"
    /\ notificationId = None
    /\ id = 0
    /\ notif = None
    /\ other = [pc |-> "brPop", notificationId |-> None, id |-> 0, notif |-> None]
    /\ caught = 0
    /\ sendCount = [i \in Ids |-> 0]
    /\ issued = <<>>
    /\ enqOrder = <<>>
    /\ deqOrder = <<>>
    /\ aborted = [i \in Ids |-> ""]
    /\ redelivered = 0

\* ---------------------------------------------------------------- the store
\* nextval of the SERIAL sequence (line 25), broken: it stays where it is.
NextVal_Stuck(s) == s

\* nextval of the SERIAL sequence of notifications.id (line 25).
NextVal(s) == s + 1

\* The row INSERT writes (lines 97-101): status 'pending' from the statement,
\* created_at and sent_at from the column defaults (lines 32-33).
NewRow(i, body, t) ==
    [id |-> i,
     user_id |-> PgInteger(body.user_id),
     type |-> body.type,
     channel |-> body.channel,
     subject |-> OrNull(body.subject),
     message |-> body.message,
     status |-> "'pending'",
     created_at |-> Some(t),
     sent_at |-> None]

\* The columns RETURNING gives back (line 100): all but sent_at.
Returning(row) ==
    [id |-> row.id, user_id |-> row.user_id, type |-> row.type,
     channel |-> row.channel, subject |-> row.subject, message |-> row.message,
     status |-> row.status, created_at |-> row.created_at]

\* The table after INSERT of a row.
Insert(tbl, row) ==
    [i \in DOMAIN tbl \cup {row.id} |-> IF i = row.id THEN row ELSE tbl[i]]

\* SELECT ... WHERE id = $1 (lines 52-56): result.rows.
SelectById(tbl, i) == IF i \in DOMAIN tbl THEN <<tbl[i]>> ELSE <<>>

\* The UPDATE of lines 62-66, broken: it flips a sent row back to pending.
MarkSent_Toggle(row, t) ==
    IF row.status = "'sent'"
    THEN [row EXCEPT !.status = "'pending'", !.sent_at = None]
    ELSE [row EXCEPT !.status = "'sent'", !.sent_at = Some(t)]

\* The UPDATE of lines 62-66, broken: it forgets sent_at.
MarkSent_NoTimestamp(row, t) == [row EXCEPT !.status = "'sent'"]

\* What the UPDATE of lines 62-66 makes of a row.
MarkSent(row, t) == [row EXCEPT !.status = "'sent'", !.sent_at = Some(t)]

\* The table after UPDATE ... WHERE id = $1 (lines 62-66).
UpdateSent(tbl, i, t) ==
    [j \in DOMAIN tbl |-> IF j = i THEN MarkSent(tbl[j], t) ELSE tbl[j]]

\* ---------------------------------------------------------------- the queue
\* lPush, broken: the element is dropped.
LPush_Drop(q, e) == q

\* lPush (line 105): the element goes to the head of the list.
LPush(q, e) == <<e>> \o q

\* brPop, broken: it takes the head of the list.
RPopIndex_Head(q) == 1

\* brPop (line 49) takes the element at the tail of the list.
RPopIndex(q) == Len(q)

RPopElement(q) == q[RPopIndex(q)]
RPopRest(q) == [k \in 1..(Len(q) - 1) |-> IF k < RPopIndex(q) THEN q[k] ELSE q[k + 1]]

\* ---------------------------------------------------------------- the clock
\* CURRENT_TIMESTAMP (lines 32 and 64).  Time is counted in statements: a
\* statement that reads the clock does so at a later instant than the
\* statement before it.
CurrentTimestamp == now + 1

\* ---------------------------------------------------------------- POST /notifications
\* A response: status code, error text or body, and the request it answers.
Response(c, e, b, r) == [code |-> c, error |-> e, body |-> b, req |-> Some(r)]

\* Lines 87-95: a request that fails validation.
PostInvalid(h, body) ==
    /\ hpc[h] = "idle"
    /\ requests < MaxRequests
    /\ MissingRequired(body) \/ InvalidChannel(body)
    /\ requests' = requests + 1
    /\ resp' = IF MissingRequired(body)
               THEN Response(400, "missing required fields", None, PostRequest(body))
               ELSE Response(400, "invalid channel", None, PostRequest(body))
    /\ UNCHANGED <<listParams, records, seq, queue, now, hpc, notification, reqBody,
                   dispatcherVars, historyVars>>

\* Lines 87-103: a valid request whose INSERT succeeds.
PostInsert(h, body) ==
    /\ hpc[h] = "idle"
    /\ requests < MaxRequests
    /\ ~MissingRequired(body) /\ ~InvalidChannel(body)
    /\ PgInteger(body.user_id) # "error"
    /\ requests' = requests + 1
    /\ LET row == NewRow(seq, body, CurrentTimestamp)
       IN /\ records' = Insert(records, row)
          /\ notification' = [notification EXCEPT ![h] = Some(Returning(row))]
          /\ issued' = Append(issued, row.id)
    /\ now' = CurrentTimestamp
    /\ seq' = NextVal(seq)
    /\ hpc' = [hpc EXCEPT ![h] = "lPush"]
    /\ reqBody' = [reqBody EXCEPT ![h] = Some(body)]
    /\ UNCHANGED <<listParams, queue, resp, dispatcherVars, enqOrder, deqOrder, aborted, redelivered>>

\* The same with the handler going on to push although the INSERT threw.
PostInsertError_Enqueue(h, body) ==
    /\ hpc[h] = "idle"
    /\ requests < MaxRequests
    /\ ~MissingRequired(body) /\ ~InvalidChannel(body)
    /\ requests' = requests + 1
    /\ seq' = NextVal(seq)
    /\ queue' = LPush(queue, IdToString(seq))
    /\ enqOrder' = Append(enqOrder, seq)
    /\ resp' = Response(500, "insert failed", None, PostRequest(body))
    /\ UNCHANGED <<listParams, records, now, hpc, notification, reqBody, dispatcherVars,
                   issued, deqOrder, aborted, redelivered>>

\* Lines 87-101 and 117-119: a valid request whose INSERT throws (the
\* parameter is no integer, or the store is unavailable).  The sequence
\* value may or may not have been drawn.
PostInsertError(h, body) ==
    /\ hpc[h] = "idle"
    /\ requests < MaxRequests
    /\ ~MissingRequired(body) /\ ~InvalidChannel(body)
    /\ requests' = requests + 1
    /\ \E drawn \in BOOLEAN : seq' = IF drawn THEN NextVal(seq) ELSE seq
    /\ resp' = Response(500, "insert failed", None, PostRequest(body))
    /\ UNCHANGED <<listParams, records, queue, now, hpc, notification, reqBody, dispatcherVars,
                   historyVars>>

\* Lines 105-116: lPush succeeds and the row of RETURNING is the response.
PostLPush(h) ==
    /\ hpc[h] = "lPush"
    /\ LET n == Get(notification[h])
       IN /\ queue' = LPush(queue, IdToString(n.id))
          /\ enqOrder' = Append(enqOrder, n.id)
          /\ resp' = Response(200, "", Some(n), PostRequest(Get(reqBody[h])))
    /\ hpc' = [hpc EXCEPT ![h] = "idle"]
    /\ notification' = [notification EXCEPT ![h] = None]
    /\ reqBody' = [reqBody EXCEPT ![h] = None]
    /\ UNCHANGED <<listParams, records, seq, now, requests, dispatcherVars,
                   issued, deqOrder, aborted, redelivered>>

\* A handler that takes the row out again when lPush throws.
PostLPushError_Rollback(h) ==
    /\ hpc[h] = "lPush"
    /\ resp' = Response(500, "lPush failed", None, PostRequest(Get(reqBody[h])))
    /\ records' = [i \in DOMAIN records \ {Get(notification[h]).id} |-> records[i]]
    /\ hpc' = [hpc EXCEPT ![h] = "idle"]
    /\ notification' = [notification EXCEPT ![h] = None]
    /\ reqBody' = [reqBody EXCEPT ![h] = None]
    /\ UNCHANGED <<listParams, seq, queue, now, requests, dispatcherVars, historyVars>>

\* Lines 105 and 117-119: lPush throws; the row stays in the table.
PostLPushError(h) ==
    /\ hpc[h] = "lPush"
    /\ resp' = Response(500, "lPush failed", None, PostRequest(Get(reqBody[h])))
    /\ hpc' = [hpc EXCEPT ![h] = "idle"]
    /\ notification' = [notification EXCEPT ![h] = None]
    /\ reqBody' = [reqBody EXCEPT ![h] = None]
    /\ UNCHANGED <<listParams, records, seq, queue, now, requests, dispatcherVars, historyVars>>

\* ---------------------------------------------------------------- GET /notifications/:id
\* Text of a request is a sequence of characters: 0..9 for the digits, 10 for
\* the minus sign, 11 for a letter.
Digits == 0..9

\* What Postgres makes of a text parameter compared with an INTEGER column
\* (lines 128 and 163): the integer, or nothing when the text is no integer.
PgIntegerText(t) ==
    IF Len(t) > 0 /\ \A k \in 1..Len(t) : t[k] \in Digits
    THEN Some(ParseInt(t))
    ELSE None

\* The object of lines 136-146: the row with its sent_at.
Notification(row) ==
    [id |-> row.id, user_id |-> row.user_id, type |-> row.type,
     channel |-> row.channel, subject |-> row.subject, message |-> row.message,
     status |-> row.status, created_at |-> row.created_at, sent_at |-> row.sent_at]

GetRequest(idParam) == Request("GET", None, Some(idParam), None)

\* Lines 125-146: what GET /notifications/:id answers when the query returns.
GetResponse(tbl, idParam) ==
    IF PgIntegerText(idParam) = None
    THEN Response(500, "invalid input syntax", None, GetRequest(idParam))
    ELSE IF SelectById(tbl, Get(PgIntegerText(idParam))) = <<>>
    THEN Response(404, "notification not found", None, GetRequest(idParam))
    ELSE Response(200, "", Some(Notification(SelectById(tbl, Get(PgIntegerText(idParam)))[1])),
                  GetRequest(idParam))

\* Lines 123-146: GET /notifications/:id.
GetNotification(idParam) ==
    /\ resp' = GetResponse(records, idParam)
    /\ UNCHANGED <<records, seq, queue, now, hpc, notification, reqBody, requests,
                   listParams, dispatcherVars, historyVars>>

\* Lines 125 and 147-150: the query throws.
GetNotificationError(idParam) ==
    /\ resp' = Response(500, "query failed", None, GetRequest(idParam))
    /\ UNCHANGED <<records, seq, queue, now, hpc, notification, reqBody, requests,
                   listParams, dispatcherVars, historyVars>>

\* ---------------------------------------------------------------- GET /notifications
\* parseInt of lines 156-157 on the text of a query parameter (<<>> when the
\* parameter is absent): an optional minus sign, then the digits up to the
\* first other character; NaN, written <<>>, when there is no digit.
DigitPrefix(t) ==
    LET n == CHOOSE n \in 0..Len(t) :
                 /\ \A k \in 1..n : t[k] \in Digits
                 /\ n < Len(t) => t[n + 1] \notin Digits
    IN SubSeq(t, 1, n)

JsParseInt(t) ==
    LET neg == Len(t) > 0 /\ t[1] = 10
        d == DigitPrefix(IF neg THEN SubSeq(t, 2, Len(t)) ELSE t)
    IN IF d = <<>> THEN None
       ELSE Some(IF neg THEN 0 - ParseInt(d) ELSE ParseInt(d))

\* `parseInt(x) || d` of lines 156-157: NaN and 0 are falsy.
OrDefault(n, d) == IF n = None \/ Get(n) = 0 THEN d ELSE Get(n)

\* The default of line 156.
DefaultLimit == 100

\* Line 156: the LIMIT parameter.
EffectiveLimit(t) == OrDefault(JsParseInt(t), DefaultLimit)

\* Line 157: the OFFSET parameter.
EffectiveOffset(t) == OrDefault(JsParseInt(t), 0)

\* The query string: user_id, limit and offset, each <<>> when absent.
Query(u, l, o) == [user_id |-> u, limit |-> l, offset |-> o]

ListRequest(q) == Request("LIST", None, None, Some(q))

\* The JavaScript literal of a stored user_id as an integer.
UserIdValue(v) == CASE v = "0" -> 0 [] v = "1" -> 1 [] v = "2" -> 2 [] OTHER -> 0 - 1

\* ORDER BY created_at DESC (lines 165 and 168) over the rows with the ids S.
RECURSIVE NewestFirst(_, _)
NewestFirst(tbl, S) ==
    IF S = {} THEN <<>>
    ELSE LET m == CHOOSE i \in S : \A j \in S :
                      \/ Get(tbl[j].created_at) < Get(tbl[i].created_at)
                      \/ (Get(tbl[j].created_at) = Get(tbl[i].created_at) /\ j <= i)
         IN <<tbl[m]>> \o NewestFirst(tbl, S \ {m})

\* LIMIT l OFFSET o of a result.
LimitOffset(rows, l, o) ==
    [k \in 1..(IF Len(rows) - o < 0 THEN 0
               ELSE IF Len(rows) - o < l THEN Len(rows) - o ELSE l) |-> rows[o + k]]

\* Lines 159-172: result.rows of the list query.
ListRows(tbl, q) ==
    LET S == IF q.user_id = <<>> THEN DOMAIN tbl
             ELSE {i \in DOMAIN tbl :
                     UserIdValue(tbl[i].user_id) = Get(PgIntegerText(q.user_id))}
    IN LimitOffset(NewestFirst(tbl, S), EffectiveLimit(q.limit), EffectiveOffset(q.offset))

\* Postgres refuses the statement: a filter that is no integer, a negative
\* LIMIT or a negative OFFSET.
ListRefused(q) ==
    \/ q.user_id # <<>> /\ PgIntegerText(q.user_id) = None
    \/ EffectiveLimit(q.limit) < 0
    \/ EffectiveOffset(q.offset) < 0

\* Lines 153-186: GET /notifications answers with the rows and their count.
ListNotifications(q) ==
    /\ ~ListRefused(q)
    /\ listParams' = Some([limit |-> EffectiveLimit(q.limit),
                           offset |-> EffectiveOffset(q.offset)])
    /\ LET rows == ListRows(records, q)
       IN resp' = Response(200, "",
                           Some([notifications |-> [k \in 1..Len(rows) |-> Notification(rows[k])],
                                 count |-> Len(rows)]),
                           ListRequest(q))
    /\ UNCHANGED <<records, seq, queue, now, hpc, notification, reqBody, requests,
                   dispatcherVars, historyVars>>

\* Lines 172 and 187-190: the query throws.
ListNotificationsError(q) ==
    /\ listParams' = Some([limit |-> EffectiveLimit(q.limit),
                           offset |-> EffectiveOffset(q.offset)])
    /\ resp' = Response(500, "query failed", None, ListRequest(q))
    /\ UNCHANGED <<records, seq, queue, now, hpc, notification, reqBody, requests,
                   dispatcherVars, historyVars>>

\* ---------------------------------------------------------------- processQueue
\* sendNotification (lines 75-83): the line it logs, by channel.
sendNotification(n) ==
    CASE n.channel = "'email'" -> "sending email"
      [] n.channel = "'slack'" -> "sending slack"
      [] n.channel = "'telegram'" -> "sending telegram"
      [] OTHER -> ""

\* processQueue is inside an iteration that holds an id.
Holding == pc \in {"select", "send", "update"}

\* The end of an iteration of the while loop: its constants go out of
\* scope and line 49 is next.
NextIteration ==
    /\ pc' = "brPop"
    /\ notificationId' = None
    /\ id' = 0
    /\ notif' = None

\* A catch that leaves the while loop.
Catch_Exit(stage) ==
    /\ caught + redelivered < MaxEvents
    /\ caught' = caught + 1
    /\ pc' = "exited"
    /\ notificationId' = None
    /\ id' = 0
    /\ notif' = None
    /\ aborted' = IF stage = "brPop" THEN aborted
                  ELSE [aborted EXCEPT ![id] = stage]

\* The catch of lines 69-71: log, and go round the loop again.
Catch(stage) ==
    /\ caught + redelivered < MaxEvents
    /\ caught' = caught + 1
    /\ NextIteration
    /\ aborted' = IF stage = "brPop" THEN aborted
                  ELSE [aborted EXCEPT ![id] = stage]

\* A pop that hands the element over and leaves it in the list.
BrPopItem_Peek ==
    /\ pc = "brPop"
    /\ queue # <<>>
    /\ notificationId' = Some(RPopElement(queue))
    /\ id' = ParseInt(RPopElement(queue))
    /\ deqOrder' = Append(deqOrder, ParseInt(RPopElement(queue)))
    /\ pc' = "select"
    /\ aborted' = [aborted EXCEPT ![ParseInt(RPopElement(queue))] = ""]
    /\ UNCHANGED <<other, records, seq, queue, now, handlerVars, notif, caught, sendCount,
                   issued, enqOrder, redelivered>>

\* Lines 49-51: brPop hands over the oldest element.
BrPopItem ==
    /\ pc = "brPop"
    /\ queue # <<>>
    /\ notificationId' = Some(RPopElement(queue))
    /\ queue' = RPopRest(queue)
    /\ id' = ParseInt(RPopElement(queue))
    /\ deqOrder' = Append(deqOrder, ParseInt(RPopElement(queue)))
    /\ pc' = "select"
    /\ aborted' = [aborted EXCEPT ![ParseInt(RPopElement(queue))] = ""]
    /\ UNCHANGED <<other, records, seq, now, handlerVars, notif, caught, sendCount,
                   issued, enqOrder, redelivered>>

\* Line 49: the list stayed empty for the 5 seconds; brPop returns null.
BrPopTimeout ==
    /\ pc = "brPop"
    /\ queue = <<>>
    /\ notificationId' = None
    /\ pc' = "if"
    /\ UNCHANGED <<other, records, seq, queue, now, handlerVars, id, notif, caught,
                   sendCount, historyVars>>

\* Line 50 with notificationId null: nothing to do in this iteration.
IfNull ==
    /\ pc = "if"
    /\ notificationId = None
    /\ NextIteration
    /\ UNCHANGED <<other, records, seq, queue, now, handlerVars, caught, sendCount, historyVars>>

\* Line 49 throws (Redis unreachable).
BrPopError ==
    /\ pc = "brPop"
    /\ Catch("brPop")
    /\ UNCHANGED <<other, records, seq, queue, now, handlerVars, sendCount,
                   issued, enqOrder, deqOrder, redelivered>>

\* The row is there and the loop goes to its UPDATE without line 60.
SelectHit_SkipSend ==
    /\ pc = "select"
    /\ Len(SelectById(records, id)) > 0
    /\ notif' = Some(SelectById(records, id)[1])
    /\ pc' = "update"
    /\ UNCHANGED <<other, records, seq, queue, now, handlerVars, notificationId, id, caught,
                   sendCount, historyVars>>

\* Lines 52-59: the row is there.
SelectHit ==
    /\ pc = "select"
    /\ Len(SelectById(records, id)) > 0
    /\ notif' = Some(SelectById(records, id)[1])
    /\ pc' = "send"
    /\ UNCHANGED <<other, records, seq, queue, now, handlerVars, notificationId, id, caught,
                   sendCount, historyVars>>

\* The same with the length check of line 58 left out.
SelectMiss_Proceed ==
    /\ pc = "select"
    /\ Len(SelectById(records, id)) = 0
    /\ pc' = "update"
    /\ sendCount' = [sendCount EXCEPT ![id] = @ + 1]
    /\ UNCHANGED <<other, records, seq, queue, now, handlerVars, notificationId, id, notif,
                   caught, historyVars>>

\* Lines 52-58 and 67: no row has that id; the iteration ends.
SelectMiss ==
    /\ pc = "select"
    /\ Len(SelectById(records, id)) = 0
    /\ NextIteration
    /\ UNCHANGED <<other, records, seq, queue, now, handlerVars, caught, sendCount, historyVars>>

\* Line 52 throws.
SelectError ==
    /\ pc = "select"
    /\ Catch("select")
    /\ UNCHANGED <<other, records, seq, queue, now, handlerVars, sendCount,
                   issued, enqOrder, deqOrder, redelivered>>

\* Line 60: sendNotification returns.
Send ==
    /\ pc = "send"
    /\ sendNotification(Get(notif)) \in {"sending email", "sending slack", "sending telegram", ""}
    /\ sendCount' = [sendCount EXCEPT ![id] = @ + 1]
    /\ pc' = "update"
    /\ UNCHANGED <<other, records, seq, queue, now, handlerVars, notificationId, id, notif,
                   caught, historyVars>>

\* Line 60: sendNotification throws.
SendError ==
    /\ pc = "send"
    /\ Catch("send")
    /\ sendCount' = [sendCount EXCEPT ![id] = @ + 1]
    /\ UNCHANGED <<other, records, seq, queue, now, handlerVars,
                   issued, enqOrder, deqOrder, redelivered>>

\* The same with the UPDATE changing nothing.
Update_Noop ==
    /\ pc = "update"
    /\ NextIteration
    /\ UNCHANGED <<other, records, seq, queue, now, handlerVars, caught, sendCount, historyVars>>

\* Lines 62-66: the UPDATE.
Update ==
    /\ pc = "update"
    /\ records' = UpdateSent(records, id, CurrentTimestamp)
    /\ now' = CurrentTimestamp
    /\ NextIteration
    /\ UNCHANGED <<other, seq, queue, handlerVars, caught, sendCount, historyVars>>

\* Line 62 throws.
UpdateError ==
    /\ pc = "update"
    /\ Catch("update")
    /\ UNCHANGED <<other, records, seq, queue, now, handlerVars, sendCount,
                   issued, enqOrder, deqOrder, redelivered>>

\* The list notification_queue lives in Redis, outside the process: a
\* producer other than the handler of line 105 (one repeating a delivery,
\* one naming a row that is not there) writes an id to it.
Redeliver(i) ==
    /\ caught + redelivered < MaxEvents
    /\ redelivered' = redelivered + 1
    /\ queue' = LPush(queue, IdToString(i))
    /\ UNCHANGED <<records, seq, now, handlerVars, dispatcherVars,
                   issued, enqOrder, deqOrder, aborted>>

\* A crash after which the id processQueue held is back in the list.
Crash_Requeue ==
    /\ Holding
    /\ aborted' = [aborted EXCEPT ![id] = "crash"]
    /\ NextIteration
    /\ queue' = queue \o <<IdToString(id)>>
    /\ hpc' = [h \in Handlers |-> "idle"]
    /\ notification' = [h \in Handlers |-> None]
    /\ reqBody' = [h \in Handlers |-> None]
    /\ UNCHANGED <<other, records, seq, now, resp, requests, listParams, caught,
                   sendCount, issued, enqOrder, deqOrder, redelivered>>

\* The process dies while processQueue holds an id (after line 49 gave it
\* and before the UPDATE of lines 62-66 is done) and is started again (lines
\* 197-206).  What the process had in memory is gone: the constants of the
\* iteration and the requests in flight.  The table and the list are kept by
\* Postgres and Redis.
Crash ==
    /\ Holding
    /\ aborted' = [aborted EXCEPT ![id] = "crash"]
    /\ NextIteration
    /\ hpc' = [h \in Handlers |-> "idle"]
    /\ notification' = [h \in Handlers |-> None]
    /\ reqBody' = [h \in Handlers |-> None]
    /\ UNCHANGED <<other, records, seq, queue, now, resp, requests, listParams, caught,
                   sendCount, issued, enqOrder, deqOrder, redelivered>>

\* A second processQueue loop (another process of the service on the same
\* Postgres and Redis) is the one to take the next step: pc, notificationId,
\* id and notif are now its constants, and those of the loop that ran so far
\* wait in other.
Switch ==
    /\ other # [pc |-> pc, notificationId |-> notificationId, id |-> id, notif |-> notif]
    /\ pc' = other.pc
    /\ notificationId' = other.notificationId
    /\ id' = other.id
    /\ notif' = other.notif
    /\ other' = [pc |-> pc, notificationId |-> notificationId, id |-> id, notif |-> notif]
    /\ UNCHANGED <<records, seq, queue, now, handlerVars, caught, sendCount, historyVars>>

\* ---------------------------------------------------------------- specifications
AdmissionOf(B) ==
    \E h \in Handlers :
        \/ \E body \in B : PostInvalid(h, body)
        \/ \E body \in B : PostInsert(h, body)
        \/ \E body \in B : PostInsertError(h, body)
        \/ PostLPush(h)
        \/ PostLPushError(h)

Admission == AdmissionOf(Bodies)

Dispatcher ==
    \/ BrPopItem
    \/ BrPopTimeout
    \/ IfNull
    \/ BrPopError
    \/ SelectHit
    \/ SelectMiss
    \/ SelectError
    \/ Send
    \/ SendError
    \/ Update
    \/ UpdateError

Environment == \E i \in Ids : Redeliver(i)

Next == Admission \/ Dispatcher \/ Environment

Spec == Init /\ [][Next]_vars

\* The service with its read routes as well, request bodies of more kinds,
\* and the list written by line 105 only.
ApiBodies == Bodies \cup { Body("1", "'t'", "'email'", "''", "'hi'") }

IdParams == {IdToString(i) : i \in Ids} \cup {<<11>>}

\* No parameter; user_id=1&limit=1; limit=1001; limit=-1; limit=0&offset=1;
\* user_id=a&limit=a.
Queries ==
    { Query(<<>>, <<>>, <<>>),
      Query(<<1>>, <<1>>, <<>>),
      Query(<<>>, <<1, 0, 0, 1>>, <<>>),
      Query(<<>>, <<10, 1>>, <<>>),
      Query(<<>>, <<0>>, <<1>>),
      Query(<<11>>, <<11>>, <<>>) }

Reads ==
    \/ \E idParam \in IdParams : GetNotification(idParam)
    \/ \E idParam \in IdParams : GetNotificationError(idParam)
    \/ \E q \in Queries : ListNotifications(q)
    \/ \E q \in Queries : ListNotificationsError(q)

\* processQueue while Redis and Postgres answer and nothing throws.
DispatcherNoFault ==
    \/ BrPopItem
    \/ BrPopTimeout
    \/ IfNull
    \/ SelectHit
    \/ Send
    \/ Update

ApiNext == AdmissionOf(ApiBodies) \/ DispatcherNoFault \/ Reads

ApiSpec == Init /\ [][ApiNext]_vars

\* The service when its process may die and be started again.
CrashNext == Next \/ Crash

CrashSpec == Init /\ [][CrashNext]_vars

\* The service with two processQueue loops on the same list and table.
MultiNext == Next \/ Switch

MultiSpec == Init /\ [][MultiNext]_vars

\* The processQueue loop is started once (line 200) and every await of it
\* resolves or rejects: the loop keeps taking steps.
FairSpec == Spec /\ WF_vars(Dispatcher)

\* ---------------------------------------------------------------- helpers of the properties
Range(s) == {s[k] : k \in 1..Len(s)}
IsPrefix(s, t) == Len(s) <= Len(t) /\ \A k \in 1..Len(s) : s[k] = t[k]
NoDup(s) == \A j, k \in 1..Len(s) : j # k => s[j] # s[k]
Last(s) == s[Len(s)]

\* The list has been written by line 105 only.
OwnQueue == redelivered = 0

\* ---------------------------------------------------------------- C1
\* C1: while only the handler of line 105 writes to the list, every id in
\* the list, and the id processQueue holds after a pop, is the id of a row of
\* the table; the handlers push only ids that INSERT returned.
C1_EnqueuedIdsExist ==
    /\ Range(enqOrder) \subseteq Range(issued)
    /\ Range(issued) \subseteq DOMAIN records
    /\ OwnQueue =>
         /\ \A k \in 1..Len(queue) : ParseInt(queue[k]) \in DOMAIN records
         /\ Holding => id \in DOMAIN records

\* One id waits in the list and processQueue holds another.
C1_Witness ==
    /\ OwnQueue
    /\ Len(queue) = 1
    /\ pc = "select"
    /\ id # ParseInt(queue[1])

\* ---------------------------------------------------------------- C2
\* C2: while only line 105 writes to the list, the ids come out of brPop in
\* the order in which the pushes completed; a brPop on the empty list comes
\* back with null and takes nothing.
C2_Fifo ==
    /\ [](OwnQueue => IsPrefix(deqOrder, enqOrder))
    /\ [][pc = "brPop" /\ queue = <<>> /\ pc' # "brPop"
            => notificationId' = None /\ pc' = "if" /\ queue' = <<>>
               /\ deqOrder' = deqOrder]_vars

\* Two ids went through the list and the next brPop has timed out.
C2_Witness ==
    /\ OwnQueue
    /\ Len(deqOrder) = 2
    /\ deqOrder = enqOrder
    /\ pc = "if"

C4_StatusForwardOnly ==
    [][\A i \in DOMAIN records :
         /\ i \in DOMAIN records'
         /\ records'[i].status # records[i].status =>
              /\ records[i].status = "'pending'"
              /\ records'[i].status \in {"'sent'", "'failed'"}]_vars

\* A row was sent, its id came a second time, and the second UPDATE ran.
C4_Witness ==
    \E i \in DOMAIN records :
        /\ records[i].status = "'sent'"
        /\ sendCount[i] = 2
        /\ caught = 0
        /\ pc = "brPop"

\* ---------------------------------------------------------------- C5
\* C5: in every row, sent_at is not null exactly when status is sent.
C5_SentAtIffSent ==
    \A i \in DOMAIN records :
        (records[i].sent_at # None) <=> (records[i].status = "'sent'")

\* One row is sent and has its sent_at, another is pending.
C5_Witness ==
    \E i, j \in DOMAIN records :
        /\ records[i].status = "'sent'"
        /\ records[i].sent_at # None
        /\ records[j].status = "'pending'"

\* ---------------------------------------------------------------- C6
\* C6: sendNotification is called only for a row whose status is pending,
\* and a row that is sent or failed is not written again.
C6_SkipsTerminalRecord ==
    [][\A i \in Ids :
         /\ sendCount'[i] > sendCount[i] =>
              i \in DOMAIN records /\ records[i].status = "'pending'"
         /\ (i \in DOMAIN records /\ records[i].status \in {"'sent'", "'failed'"}) =>
              records'[i] = records[i]]_vars

\* ---------------------------------------------------------------- C7
\* C7: once the UPDATE has marked a row sent, the row keeps status sent and
\* the sent_at of that first UPDATE.
C7_MarkSentIdempotent ==
    [][\A i \in DOMAIN records :
         records[i].status = "'sent'" =>
             /\ records'[i].status = "'sent'"
             /\ records'[i].sent_at = records[i].sent_at]_vars

\* ---------------------------------------------------------------- C8
\* C8: when processQueue holds an id that no row has, its next step ends the
\* iteration and goes back to brPop without calling sendNotification, without
\* writing to the list or the table, and without an error other than a
\* failure of the SELECT statement itself.
C8_MissingRecordSkipped ==
    [][(pc = "select" /\ id \notin DOMAIN records /\ pc' # "select") =>
          /\ pc' = "brPop"
          /\ sendCount' = sendCount
          /\ queue' = queue
          /\ records' = records
          /\ (caught' = caught \/ aborted'[id] = "select")]_vars

\* The id popped last has no row, no error was caught, and processQueue is
\* back at brPop.
C8_Witness ==
    /\ deqOrder # <<>>
    /\ Last(deqOrder) \notin DOMAIN records
    /\ sendCount[Last(deqOrder)] = 0
    /\ caught = 0
    /\ pc = "brPop"

\* ---------------------------------------------------------------- C9
\* The id was pushed by a handler of POST /notifications.
Enqueued(i) == i \in Range(enqOrder)

\* The row is sent and has its sent_at.
IsSent(i) == i \in DOMAIN records /\ records[i].status = "'sent'" /\ records[i].sent_at # None

C10_SenderFailureMarksFailed ==
    OwnQueue =>
        \A i \in DOMAIN records :
            /\ aborted[i] = "send" => records[i].status = "'failed'"
            /\ (i \in Range(deqOrder) /\ ~(Holding /\ id = i)
                  /\ aborted[i] \in {"", "send"}) =>
                 records[i].status \in {"'sent'", "'failed'"}

\* ---------------------------------------------------------------- C11
\* The body of the POST request that a step receives.
ReceivedBody ==
    IF \E h \in Handlers : reqBody[h] = None /\ reqBody'[h] # None
    THEN Get(reqBody'[CHOOSE h \in Handlers : reqBody[h] = None /\ reqBody'[h] # None])
    ELSE Get(Get(resp'.req).body)

\* A required field is absent, or the channel is none of the three.
FailsValidation(body) ==
    \/ "undefined" \in {body.user_id, body.type, body.channel, body.message}
    \/ body.channel \notin {"'email'", "'slack'", "'telegram'"}

\* C11: a POST whose body fails validation is answered with 400 and writes
\* neither the table, the sequence nor the list.
C11_ValidationRejects ==
    [][(requests' = requests + 1 /\ FailsValidation(ReceivedBody)) =>
          /\ resp'.code = 400
          /\ UNCHANGED <<records, seq, queue, now, hpc, notification, issued, enqOrder>>]_vars

\* A request has been refused while a row is in the table and its id in the list.
C11_Witness ==
    /\ resp.code = 400
    /\ FailsValidation(Get(Get(resp.req).body))
    /\ Len(issued) = 1
    /\ Len(queue) = 1

\* ---------------------------------------------------------------- C12
\* The row is sent or failed.
Terminal(i) == i \in DOMAIN records /\ records[i].status \in {"'sent'", "'failed'"}

\* C12: the creates, however their INSERT and lPush steps interleave with each
\* other and with processQueue, get distinct ids, and every id pushed ends
\* sent or failed whatever happens to the other one, unless the SELECT or the
\* UPDATE of its own iteration threw.
C12_ConcurrentCreatesTerminate ==
    /\ [](NoDup(issued))
    /\ \A i \in Ids : Enqueued(i) ~> (Terminal(i) \/ aborted[i] \in {"select", "update"})

\* ---------------------------------------------------------------- C13
\* The value a field comes back with is the value submitted; an absent
\* field comes back as null.
SameValue(submitted, returned) ==
    \/ returned = submitted
    \/ submitted = "undefined" /\ returned = "null"

\* C13: at the moment a create answers 200, GET of the id it returned gives
\* the user_id, type, channel, subject and message that were submitted, with
\* status pending.
C13_CreateGetRoundTrip ==
    [][\A h \in Handlers :
         (hpc[h] = "lPush" /\ hpc'[h] = "idle" /\ resp'.code = 200) =>
            LET sub == Get(reqBody[h])
                got == GetResponse(records', IdToString(Get(resp'.body).id))
            IN /\ got.code = 200
               /\ SameValue(sub.user_id, Get(got.body).user_id)
               /\ SameValue(sub.type, Get(got.body).type)
               /\ SameValue(sub.channel, Get(got.body).channel)
               /\ SameValue(sub.subject, Get(got.body).subject)
               /\ SameValue(sub.message, Get(got.body).message)
               /\ Get(got.body).status = "'pending'"]_vars

\* ---------------------------------------------------------------- C14
\* The maximum the limit is to be capped at.
LimitCap == 1000

\* C14: a list query runs with LIMIT 100 when the request names no limit,
\* never with a LIMIT above the maximum, and returns no more rows than that.
C14_LimitCapped ==
    (resp.req # None /\ Get(resp.req).op = "LIST") =>
        /\ Get(Get(resp.req).query).limit = <<>> => Get(listParams).limit = DefaultLimit
        /\ Get(listParams).limit <= LimitCap
        /\ resp.code = 200 => Get(resp.body).count <= LimitCap

\* ---------------------------------------------------------------- C15
\* The iteration that popped the id is over.
Processed(i) == i \in Range(deqOrder) /\ ~(Holding /\ id = i)

\* C15: a step of processQueue that throws, at brPop, at the SELECT, in
\* sendNotification or at the UPDATE, leaves the loop at brPop again, and
\* every id pushed, before the error or after it, is popped and its iteration
\* run to its end.
C15_ErrorNeverStopsLoop ==
    /\ [][caught' > caught => pc' = "brPop"]_vars
    /\ \A i \in Ids : Enqueued(i) ~> Processed(i)

\* The iteration of the first id threw, and the id popped after it was sent.
C15_Witness ==
    /\ OwnQueue
    /\ caught = 1
    /\ Len(deqOrder) = 2
    /\ aborted[deqOrder[1]] # ""
    /\ aborted[deqOrder[2]] = ""
    /\ IsSent(deqOrder[2])
    /\ pc = "brPop"

\* ---------------------------------------------------------------- C16
\* The ids in the list.
Queued == {ParseInt(queue[k]) : k \in 1..Len(queue)}

\* The process died while processQueue held the id.
Lost(i) == aborted[i] = "crash"

\* C16: while only line 105 writes to the list, an id that processQueue held
\* when the process died is not in the list after the restart, is not held
\* and is not popped again, and its row stays pending in every later state.
C16_CrashLosesItem ==
    /\ [](OwnQueue => \A i \in Ids : Lost(i) =>
             /\ i \notin Queued
             /\ ~(Holding /\ id = i)
             /\ i \in DOMAIN records
             /\ records[i].status = "'pending'"
             /\ records[i].sent_at = None)
    /\ [][\A i \in Ids : (Lost(i) /\ OwnQueue') =>
             /\ Lost(i)'
             /\ deqOrder' \in {deqOrder} \cup {Append(deqOrder, j) : j \in Ids \ {i}}]_vars

\* The process died holding the first id; after the restart the second id
\* was popped and sent, and the list is empty.
C16_Witness ==
    /\ OwnQueue
    /\ Len(deqOrder) = 2
    /\ Lost(deqOrder[1])
    /\ IsSent(deqOrder[2])
    /\ queue = <<>>
    /\ pc = "if"

\* ---------------------------------------------------------------- C17
\* INSERT returned the id, no handler is still on its way to push it, and it
\* was not pushed: the lPush of its request threw.
EnqueueFailed(i) ==
    /\ i \in Range(issued)
    /\ i \notin Range(enqOrder)
    /\ \A h \in Handlers : notification[h] = None \/ Get(notification[h]).id # i

\* C17: a handler whose lPush throws after its INSERT answers 500 and leaves
\* the table and the list as they are; from then on, while only line 105
\* writes to the list, the row is in the table with status pending and its
\* id is never in the list nor held by processQueue.
C17_EnqueueFailureLeavesPending ==
    /\ [][\A h \in Handlers :
            (hpc[h] = "lPush" /\ hpc'[h] = "idle" /\ enqOrder' = enqOrder) =>
               /\ resp'.code = 500
               /\ records' = records
               /\ queue' = queue
               /\ \E i \in Ids : i = Get(notification[h]).id /\ EnqueueFailed(i)']_vars
    /\ [][\A i \in Ids : EnqueueFailed(i) => EnqueueFailed(i)']_vars
    /\ [](OwnQueue => \A i \in Ids : EnqueueFailed(i) =>
             /\ i \in DOMAIN records
             /\ records[i].status = "'pending'"
             /\ records[i].sent_at = None
             /\ i \notin Queued
             /\ i \notin Range(deqOrder)
             /\ ~(Holding /\ id = i))

\* The lPush of one create threw; the row of the other create was pushed,
\* popped and sent, and the list is empty.
C17_Witness ==
    \E i, j \in Ids :
        /\ OwnQueue
        /\ EnqueueFailed(i)
        /\ IsSent(j)
        /\ queue = <<>>
        /\ pc = "if"

\* ---------------------------------------------------------------- C18
\* The loop that is not taking the step is inside an iteration that holds an id.
OtherHolding == other.pc \in {"select", "send", "update"}

\* One of the two loops holds the id.
Held(i) == (Holding /\ id = i) \/ (OtherHolding /\ other.id = i)

\* C18: with two processQueue loops on the same list and table, and only
\* line 105 writing to the list, a pop takes one element and gives it to the
\* loop that popped and to no other, no id is popped twice or held by both
\* loops, sendNotification is called at most once for an id, and a row whose
\* iteration ended without a throw is sent, as it is with one loop.
C18_TwoDispatchersSafe ==
    /\ [](OwnQueue =>
            /\ NoDup(deqOrder)
            /\ ~(Holding /\ OtherHolding /\ id = other.id)
            /\ \A i \in Ids :
                  /\ sendCount[i] <= 1
                  /\ (i \in Range(deqOrder) /\ ~Held(i) /\ aborted[i] = "") => IsSent(i)
                  /\ IsSent(i) => sendCount[i] = 1)
    /\ [][deqOrder' # deqOrder =>
            /\ Len(deqOrder') = Len(deqOrder) + 1
            /\ Len(queue') = Len(queue) - 1
            /\ id' = Last(deqOrder')
            /\ Holding'
            /\ other' = other]_vars

\* Both loops are at their UPDATE, each with an id of its own for which
\* sendNotification was called once.
C18_Witness ==
    /\ OwnQueue
    /\ pc = "update"
    /\ other.pc = "update"
    /\ id # other.id
    /\ sendCount[id] = 1
    /\ sendCount[other.id] = 1

\* ---------------------------------------------------------------- C19
\* C19: while only line 105 writes to the list, no id is pushed twice or
\* popped twice, sendNotification is called at most once for an id, and a
\* row becomes sent only in the iteration that holds its id, after the call
\* of sendNotification for it has returned.
C19_AtMostOnce ==
    /\ [](OwnQueue =>
            /\ NoDup(enqOrder)
            /\ NoDup(deqOrder)
            /\ \A i \in Ids :
                  /\ sendCount[i] <= 1
                  /\ IsSent(i) => sendCount[i] = 1 /\ aborted[i] # "send")
    /\ [][\A i \in DOMAIN records :
            (OwnQueue /\ records[i].status # "'sent'" /\ records'[i].status = "'sent'") =>
               /\ pc = "update"
               /\ id = i
               /\ sendCount[i] = 1
               /\ aborted[i] = ""]_vars

\* Two ids went through the list once each, sendNotification was called
\* once for each, and both rows are sent.
C19_Witness ==
    /\ OwnQueue
    /\ Len(enqOrder) = 2
    /\ deqOrder = enqOrder
    /\ \A i \in Range(deqOrder) : sendCount[i] = 1 /\ IsSent(i)

\* ---------------------------------------------------------------- C20
\* C20: the id of a row whose create has answered and that is pending is in
\* the list or held by processQueue, unless its iteration threw or the
\* process died during it (a create whose lPush threw has not answered with
\* the row); and a step of processQueue leaves the list as it is or takes
\* its last element, the list growing only by a push from outside the loop.
C20_NoOrphanedPending ==
    /\ [](\A i \in Ids :
            (Enqueued(i) /\ i \in DOMAIN records /\ records[i].status = "'pending'"
               /\ aborted[i] = "") =>
                 i \in Queued \/ (Holding /\ id = i))
    /\ [][<<pc, notificationId, id, notif, caught, sendCount>>'
             # <<pc, notificationId, id, notif, caught, sendCount>> =>
               queue' \in {queue, RPopRest(queue)}]_vars
    /\ [][Len(queue') > Len(queue) =>
             enqOrder' # enqOrder \/ redelivered' # redelivered]_vars

\* One pending row has its id in the list, another is held by processQueue,
\* and nothing has thrown or died.
C20_Witness ==
    /\ OwnQueue
    /\ caught = 0
    /\ \A i \in Ids : aborted[i] = ""
    /\ Len(enqOrder) = 2
    /\ Len(queue) = 1
    /\ pc = "send"
    /\ id # ParseInt(queue[1])
    /\ \A i \in Range(enqOrder) : records[i].status = "'pending'"

====
